---- MODULE Spec2Model ----
(***************************************************************************)
(* Model of browser-console: the EventRouter (components/Browser.ts) and   *)
(* the LogRecord / PreviewBuilder / PropertyExpander (components/Log.ts).  *)
(*                                                                         *)
(* JavaScript values are records [t, s, n]: t is the typeof tag, s the     *)
(* string payload, n the numeric payload.  A thrown exception or rejected  *)
(* promise is recorded in the handler's outcome, never dropped.            *)
(***************************************************************************)
EXTENDS Integers, Sequences, FiniteSets, TLC

VARIABLES
    serverHash,     \* Browser.serverHash (Browser.ts:26)
    updates,        \* number of emit('update', true) so far
    nFrames,        \* number of webSocketFrameReceived events handled
    lastFrame,      \* observation of the last onWSReloadPage call
    lastHash,       \* data of the hash message processed last (undefined: none yet)
    sourceMaps,     \* the SourceMaps registry: set of [url, content]
    logs,           \* the Log objects passed to emit('log', log), in order
    emittedAt,      \* for each of them, the arrival number of its console event
    nConsole,       \* number of consoleAPICalled events handled
    lastConsole,    \* observation of the last onConsoleLog call (synchronous part)
    tasks,          \* the getProps calls that await a round trip, in call order
    lastSettled,    \* observation of the getProps call that settled last
    nExpands,       \* number of getProps calls made by subscribers
    diagnostics,    \* number of console.error('objectId is missing')
    unhandled,      \* number of handler promises that ended rejected
    ignoreTypes,    \* config.request.ignoreTypes
    requests,       \* intercepted requests and the state of their handler
    rendered        \* one call of getPreviewOfRemoteObject: its argument and outcome

reloadVars == <<serverHash, updates, nFrames, lastFrame, lastHash>>
consoleVars == <<logs, emittedAt, nConsole, lastConsole, tasks, lastSettled, nExpands, diagnostics>>
requestVars == <<sourceMaps, ignoreTypes, requests>>
vars == <<serverHash, updates, nFrames, lastFrame, lastHash, sourceMaps, logs, emittedAt,
          nConsole, lastConsole, tasks, lastSettled, nExpands, diagnostics, unhandled,
          ignoreTypes, requests, rendered>>

----------------------------------------------------------------------------
(* Bounds of the exploration.                                              *)

MaxFrames == 3
MaxMsgs == 2
MaxConsole == 2
MaxExpands == 1
MaxRequests == 2
MaxProps == 2
MaxEmits == 1

----------------------------------------------------------------------------
(* JavaScript values.                                                      *)

Undefined == [t |-> "undefined", s |-> "", n |-> 0]
Str(x) == [t |-> "string", s |-> x, n |-> 0]
Num(k) == [t |-> "number", s |-> "", n |-> k]

\* ToBoolean: undefined, null, false, "" and 0 are falsy (a value of typeof
\* "object" is null when its text is "null").
Truthy(v) ==
    CASE v.t = "undefined" -> FALSE
      [] v.t = "string" -> v.s # ""
      [] v.t = "number" -> v.n # 0
      [] v.t = "boolean" -> v.s = "true"
      [] v.t = "object" -> v.s # "null"
      [] OTHER -> TRUE

----------------------------------------------------------------------------
(* Transport frames.  payloadData is a string whose first character is the *)
(* sockjs tag and whose remainder is the body; the body is kept as the     *)
(* JSON text classified by what JSON.parse makes of it.                    *)

\* One message string of an 'a' frame: JSON text of an object {type, data},
\* the JSON text "null", or text that is not JSON.
HashValues == {"", "h1", "h2"}

MsgHash(d) == [json |-> "object", type |-> "hash", data |-> d]
MsgOther == [json |-> "object", type |-> "ok", data |-> ""]
MsgNull == [json |-> "null", type |-> "", data |-> ""]
MsgInvalid == [json |-> "invalid", type |-> "", data |-> ""]

Messages == {MsgHash(d) : d \in HashValues} \cup {MsgOther, MsgNull, MsgInvalid}

MessageLists == UNION {[1..k -> Messages] : k \in 0..MaxMsgs}

BodyEmpty == [json |-> "empty", items |-> <<>>]
BodyInvalid == [json |-> "invalid", items |-> <<>>]
BodyObject == [json |-> "object", items |-> <<>>]
BodyArray(ms) == [json |-> "array", items |-> ms]

Payload(tag, body) == [tag |-> tag, body |-> body]
PayloadEmpty == Payload("", BodyEmpty)

Payloads ==
    {PayloadEmpty, Payload("o", BodyEmpty), Payload("h", BodyInvalid),
     Payload("c", BodyArray(<<MsgHash("h2")>>)),
     Payload("a", BodyEmpty), Payload("a", BodyInvalid), Payload("a", BodyObject)}
    \cup {Payload("a", BodyArray(ms)) : ms \in MessageLists}

\* message.slice(0, 1) and message.slice(1)
SliceType(message) == message.tag
SliceData(message) == message.body

\* JSON.parse: throws SyntaxError on text that is not JSON.
JSONParseThrows(text) == text.json = "invalid"

\* The forEach callback as it would be if a changed hash were signalled
\* without being recorded.
ForEachPayloadKeepBaseline(st, payload) ==
    LET step(after, n) == [msg |-> payload, before |-> st.hash, after |-> after,
                           emitted |-> n]
    IN  IF JSONParseThrows(payload) \/ payload.json = "null"
        THEN [st EXCEPT !.threw = TRUE]
        ELSE IF payload.type = "hash"
        THEN IF ~Truthy(st.hash)
             THEN [st EXCEPT !.hash = Str(payload.data),
                             !.steps = Append(@, step(Str(payload.data), 0))]
             ELSE IF Str(payload.data) = st.hash
             THEN [st EXCEPT !.steps = Append(@, step(st.hash, 0))]
             ELSE [st EXCEPT !.updates = @ + 1,
                             !.steps = Append(@, step(st.hash, 1))]
        ELSE [st EXCEPT !.steps = Append(@, step(st.hash, 0))]

\* The forEach callback on one payload string, from state st =
\* [hash, updates, threw, steps]; steps records what each callback did.
ForEachPayload(st, payload) ==
    LET step(after, n) == [msg |-> payload, before |-> st.hash, after |-> after,
                           emitted |-> n]
    IN  IF JSONParseThrows(payload) \/ payload.json = "null"
        THEN [st EXCEPT !.threw = TRUE]
        ELSE IF payload.type = "hash"
        THEN IF ~Truthy(st.hash)
             THEN [st EXCEPT !.hash = Str(payload.data),
                             !.steps = Append(@, step(Str(payload.data), 0))]
             ELSE IF Str(payload.data) = st.hash
             THEN [st EXCEPT !.steps = Append(@, step(st.hash, 0))]
             ELSE [st EXCEPT !.hash = Str(payload.data),
                             !.updates = @ + 1,
                             !.steps = Append(@, step(Str(payload.data), 1))]
        ELSE [st EXCEPT !.steps = Append(@, step(st.hash, 0))]

\* payloadArr.forEach(...): stops at the first callback that throws.
RECURSIVE ForEach(_, _)
ForEach(st, items) ==
    IF items = <<>> \/ st.threw THEN st
    ELSE ForEach(ForEachPayload(st, Head(items)), Tail(items))

\* The whole handler on one frame.
ReloadResult(hash, ups, message) ==
    LET st0 == [hash |-> hash, updates |-> ups, threw |-> FALSE, steps |-> <<>>]
        type == SliceType(message)
        data == SliceData(message)
    IN  IF message.tag = "" THEN st0
        ELSE IF data.json # "empty" /\ type = "a"
        THEN IF JSONParseThrows(data) \/ data.json # "array"
             THEN [st0 EXCEPT !.threw = TRUE]
             ELSE ForEach(st0, data.items)
        ELSE st0

\* parsedPayload.data of the last hash message among the processed ones, or
\* prev when there is none.
RECURSIVE LastHashData(_, _)
LastHashData(steps, prev) ==
    IF steps = <<>> THEN prev
    ELSE LastHashData(Tail(steps),
                      IF Head(steps).msg.type = "hash" THEN Str(Head(steps).msg.data)
                      ELSE prev)

onWSReloadPage(message) ==
    /\ nFrames < MaxFrames
    /\ LET r == ReloadResult(serverHash, updates, message)
       IN  /\ serverHash' = r.hash
           /\ updates' = r.updates
           /\ lastFrame' = [payload |-> message, before |-> serverHash,
                            updatesBefore |-> updates, threw |-> r.threw,
                            steps |-> r.steps]
           /\ lastHash' = LastHashData(r.steps, lastHash)
    /\ nFrames' = nFrames + 1
    /\ UNCHANGED <<consoleVars, requestVars, unhandled, rendered>>


----------------------------------------------------------------------------
(* URLs.  A URL string is kept parsed: abs says whether the WHATWG parser  *)
(* accepts it without a base, special whether its scheme is http-like.     *)

Url(scheme, special, host, path) ==
    [abs |-> TRUE, special |-> special, scheme |-> scheme, host |-> host, path |-> path]
RelativeUrl(text) ==
    [abs |-> FALSE, special |-> FALSE, scheme |-> "", host |-> "", path |-> text]
NoUrl == [abs |-> FALSE, special |-> FALSE, scheme |-> "undefined", host |-> "", path |-> ""]

BundleUrl == Url("http", TRUE, "localhost:8080", "/bundle.js")
EmptyUrl == RelativeUrl("")
AppTsUrl == Url("webpack", FALSE, "", "/app.ts")
AppTsRelative == RelativeUrl("app.ts")
OpaqueUrl == Url("about", FALSE, "", "")

\* ToBoolean of an optional string holding a URL.
UrlTruthy(u) == u # NoUrl /\ u # EmptyUrl

\* new URL(url).pathname: the constructor throws TypeError on a string that
\* is no absolute URL; a special scheme's empty path reads "/".
getPathFromURL(url) ==
    IF ~url.abs THEN [threw |-> TRUE, path |-> ""]
    ELSE [threw |-> FALSE,
          path |-> IF url.path = "" /\ url.special THEN "/" ELSE url.path]

\* `${url}.map`
MapUrlOf(url) == [url EXCEPT !.path = @ \o ".map"]

----------------------------------------------------------------------------
(* The position resolver (components/SourceMaps, consumed through          *)
(* create / getOriginalPosition).  A map's content is its text and the one *)
(* generated position it maps.                                             *)

NullPosition == [line |-> Undefined, column |-> Undefined, source |-> NoUrl]

MapContent(text, gl, gc, line, column, source) ==
    [text |-> text, genLine |-> gl, genColumn |-> gc,
     orig |-> [line |-> line, column |-> column, source |-> source]]

EmptyContent == MapContent("", 0, 0, Undefined, Undefined, NoUrl)
MapGood == MapContent("map-good", 10, 5, Num(3), Num(1), AppTsUrl)
MapLineZero == MapContent("map-line0", 10, 5, Num(0), Num(1), AppTsUrl)
MapRelative == MapContent("map-relative", 10, 5, Num(3), Num(1), AppTsRelative)
MapNoPath == MapContent("map-nopath", 10, 5, Num(3), Num(1), OpaqueUrl)

MapContents == {EmptyContent, MapGood, MapLineZero, MapRelative, MapNoPath}

\* SourceMaps.create(url, content): the latest content registered for url.
SourceMapsCreate(maps, url, content) ==
    {m \in maps : m.url # url} \cup {[url |-> url, content |-> content]}

\* SourceMaps.getOriginalPosition(url, {line, column}), 1-based.
getOriginalPosition(maps, url, pos) ==
    LET hits == {m \in maps : /\ m.url = url
                               /\ m.content.genLine = pos.line
                               /\ m.content.genColumn = pos.column}
    IN  IF hits = {} THEN NullPosition ELSE (CHOOSE m \in hits : TRUE).content.orig

----------------------------------------------------------------------------
(* Remote objects (Protocol.Runtime.RemoteObject) and their previews.      *)

\* String(value) as a template literal renders it.
ToStr(v) ==
    CASE v.t = "undefined" -> "undefined"
      [] v.t = "string" -> v.s
      [] v.t = "number" -> ToString(v.n)
      [] OTHER -> v.s

\* Array.prototype.join(', '): undefined elements render as the empty string.
RECURSIVE Join(_)
Join(vs) ==
    IF vs = <<>> THEN ""
    ELSE LET h == IF Head(vs).t = "undefined" THEN "" ELSE ToStr(Head(vs))
         IN  IF Len(vs) = 1 THEN h ELSE h \o ", " \o Join(Tail(vs))

quoteString(isQuote, value) ==
    IF isQuote THEN "'" \o ToStr(value) \o "'" ELSE ToStr(value)

\* valueToString as it would be if it never quoted.
valueToStringUnquoted(arg) == quoteString(FALSE, arg)

valueToString(arg) == quoteString(arg.t = "string", arg)

\* propToString(prop): undefined for an undefined prop.
propToString(props, i) ==
    IF i <= Len(props)
    THEN Str(quoteString(props[i].type = "string", props[i].value))
    ELSE Undefined

objectToString(obj) == quoteString(obj.type = "string", obj.description)

entryToString(entry) ==
    IF entry.hasValue
    THEN IF entry.hasKey
         THEN Str(objectToString(entry.key) \o " => " \o objectToString(entry.value))
         ELSE Str(objectToString(entry.value))
    ELSE Undefined

IgnoreClasses == {"Object", "Function"}

RemoteObject(type, subtype, hasValue, value, className, description, objectId) ==
    [type |-> type, subtype |-> subtype, hasValue |-> hasValue, value |-> value,
     className |-> className, description |-> description, objectId |-> objectId,
     hasPreview |-> FALSE, properties |-> <<>>, hasEntries |-> FALSE, entries |-> <<>>]

WithProperties(obj, props) == [obj EXCEPT !.hasPreview = TRUE, !.properties = props]
WithEntries(obj, es) == [obj EXCEPT !.hasPreview = TRUE, !.hasEntries = TRUE, !.entries = es]

Prop(name, type, value) == [name |-> name, type |-> type, value |-> value]
ObjPreview(type, description) == [type |-> type, description |-> description]
Entry(hasKey, key, hasValue, value) ==
    [hasKey |-> hasKey, key |-> key, hasValue |-> hasValue, value |-> value]

\* getPreviewOfRemoteObject (the class exported by Log.ts): [threw, title].
getPreviewOfRemoteObject(object) ==
    LET classDescription ==
            IF object.className # "" /\ object.className \notin IgnoreClasses
            THEN object.className \o ": " ELSE ""
        props == object.properties
        description == ToStr(object.description)
        ok(title) == [threw |-> FALSE, title |-> title]
    IN  IF object.hasValue THEN ok(valueToString(object.value))
        ELSE IF object.type = "object" /\ object.subtype = ""
        THEN ok(classDescription \o "{" \o
                (IF object.hasPreview
                 THEN Join([i \in 1..Len(props) |->
                              Str(props[i].name \o ": " \o ToStr(propToString(props, i)))])
                 ELSE "undefined") \o "}")
        ELSE IF object.type = "object" /\ object.subtype = "array"
        THEN ok("[" \o
                (IF object.hasPreview
                 THEN Join([i \in 1..Len(props) |-> propToString(props, i)])
                 ELSE "undefined") \o "]")
        ELSE IF object.type = "object" /\ object.subtype = "promise"
        THEN IF ~object.hasPreview THEN [threw |-> TRUE, title |-> ""]
             ELSE ok(description \o ": {<" \o ToStr(propToString(props, 1)) \o ">: "
                     \o ToStr(propToString(props, 2)) \o "}")
        ELSE IF object.type = "object"
                /\ object.subtype \in {"map", "set", "weakmap", "weakset"}
        THEN ok(description \o ": {" \o
                (IF object.hasPreview /\ object.hasEntries
                 THEN Join([i \in 1..Len(object.entries) |->
                              entryToString(object.entries[i])])
                 ELSE "undefined") \o "}")
        ELSE ok(classDescription \o description)

\* getPreview(remoteObject)
getPreview(remoteObject) ==
    LET p == getPreviewOfRemoteObject(remoteObject)
    IN  [threw |-> p.threw, title |-> p.title, objectId |-> remoteObject.objectId,
         isNode |-> remoteObject.subtype = "node"]

\* get preview(): this.args.map(this.getPreview); throws if any element does.
PreviewOf(args) ==
    LET ps == [i \in 1..Len(args) |-> getPreview(args[i])]
    IN  [threw |-> \E i \in 1..Len(args) : ps[i].threw, previews |-> ps]

\* get previewTitle(): the titles of this.preview joined with ', ';
\* [threw, title].
previewTitle(args) ==
    LET p == PreviewOf(args)
    IN  IF p.threw THEN [threw |-> TRUE, title |-> ""]
        ELSE [threw |-> FALSE,
              title |-> Join([i \in 1..Len(args) |-> Str(p.previews[i].title)])]

----------------------------------------------------------------------------
(* Log (components/Log.ts).                                                *)

Frame(url, line, column) == [url |-> url, lineNumber |-> line, columnNumber |-> column]

StackAbsent == [kind |-> "absent", callFrames |-> <<>>]
StackNoCallFrames == [kind |-> "noCallFrames", callFrames |-> <<>>]
StackOf(frames) == [kind |-> "frames", callFrames |-> frames]

\* stackTrace?.callFrames?.length
CallFramesLength(stackTrace) ==
    IF stackTrace.kind = "frames" THEN Len(stackTrace.callFrames) ELSE 0

UnsetPosition == [line |-> Undefined, column |-> Undefined, source |-> ""]

\* A Log whose constructor returned early: no field was assigned.
DegenerateLog ==
    [argsSet |-> FALSE, type |-> "", args |-> <<>>,
     generatedPosition |-> UnsetPosition, originalPosition |-> UnsetPosition,
     query |-> [line |-> 0, column |-> 0]]

\* new Log(logEvent, getPropsByObjectId): [threw, log].
LogConstructor(maps, logEvent) ==
    IF CallFramesLength(logEvent.stackTrace) = 0
    THEN [threw |-> FALSE, log |-> DegenerateLog]
    ELSE LET callFrame == logEvent.stackTrace.callFrames[1]
             gen == getPathFromURL(callFrame.url)
             query == [line |-> callFrame.lineNumber + 1,
                       column |-> callFrame.columnNumber + 1]
             sourceMapPosition == getOriginalPosition(maps, callFrame.url, query)
             orig == IF UrlTruthy(sourceMapPosition.source)
                     THEN getPathFromURL(sourceMapPosition.source)
                     ELSE [threw |-> FALSE, path |-> ""]
         IN  [threw |-> gen.threw \/ orig.threw,
              log |-> [argsSet |-> TRUE, type |-> logEvent.type, args |-> logEvent.args,
                       generatedPosition |->
                           [line |-> Num(callFrame.lineNumber),
                            column |-> Num(callFrame.columnNumber),
                            source |-> gen.path],
                       originalPosition |->
                           [line |-> sourceMapPosition.line,
                            column |-> sourceMapPosition.column,
                            source |-> orig.path],
                       query |-> query]]

\* existOnClient as it would be without the check of originalPosition.line.
existOnClientIgnoringLine(log) ==
    IF ~log.argsSet THEN [threw |-> TRUE, value |-> FALSE]
    ELSE [threw |-> FALSE,
          value |-> Len(log.args) # 0 /\ log.originalPosition.source # ""]

\* get existOnClient(): reading this.args.length throws TypeError while args
\* is unset.
existOnClient(log) ==
    IF ~log.argsSet THEN [threw |-> TRUE, value |-> FALSE]
    ELSE [threw |-> FALSE,
          value |-> /\ Len(log.args) # 0
                    /\ log.originalPosition.source # ""
                    /\ Truthy(log.originalPosition.line)]

\* Runtime.getProperties parameters.
GetPropertiesRequest(objectId, isProperty) ==
    [objectId |-> objectId, ownProperties |-> isProperty,
     accessorPropertiesOnly |-> ~isProperty, generatePreview |-> TRUE]

\* Browser.getPropsByObjectId(objectId, isProperty = true): what it sends and
\* how many diagnostics it prints.
getPropsByObjectId(objectId, isProperty) ==
    IF objectId # ""
    THEN [sent |-> <<GetPropertiesRequest(objectId, isProperty)>>, diagnostics |-> 0]
    ELSE [sent |-> <<>>, diagnostics |-> 1]

\* Property descriptors a Runtime.getProperties response carries.
Descriptor(name, hasValue, value, enumerable, configurable, writable, isOwn) ==
    [name |-> name, hasValue |-> hasValue, value |-> value, enumerable |-> enumerable,
     configurable |-> configurable, writable |-> writable, isOwn |-> isOwn]

\* The filter as it would be if it kept every descriptor.
FilterValueKeepAll(ds) == ds

\* result.concat(nodeResult).filter(({ value }) => value)
RECURSIVE FilterValue(_)
FilterValue(ds) ==
    IF ds = <<>> THEN <<>>
    ELSE IF Head(ds).hasValue THEN <<Head(ds)>> \o FilterValue(Tail(ds))
    ELSE FilterValue(Tail(ds))

\* .map((propertyDescriptor) => ...) over the kept descriptors: [threw, value].
PropsResponse(result, nodeResult) ==
    LET kept == FilterValue(result \o nodeResult)
        recs == [i \in 1..Len(kept) |->
                    [preview |-> getPreview(kept[i].value),
                     name |-> kept[i].name,
                     descriptor |-> [enumerable |-> kept[i].enumerable,
                                     configurable |-> kept[i].configurable,
                                     writable |-> kept[i].writable,
                                     isOwn |-> kept[i].isOwn]]]
    IN  [threw |-> \E i \in 1..Len(kept) : recs[i].preview.threw, value |-> recs]

\* No getProps call has settled yet.
NoCall ==
    [origin |-> "", objectId |-> "", isNode |-> FALSE, pc |-> "none", sent |-> <<>>,
     diagnostics |-> 0, first |-> <<>>, second |-> <<>>, defined |-> FALSE,
     value |-> <<>>, failure |-> ""]

\* log.getProps(object) up to its first await: the state of the call.
\* pc: "await1" / "await2" a round trip is pending; "resolved" (defined says
\* whether with a value or undefined); "rejected" (failure says whether the
\* round trip rejected, "transport", or a preview threw, "preview").
getPropsStart(origin, object) ==
    IF object.objectId # ""
    THEN LET call == getPropsByObjectId(object.objectId, TRUE)
         IN  [origin |-> origin, objectId |-> object.objectId, isNode |-> object.isNode,
              pc |-> IF call.sent # <<>> THEN "await1" ELSE "resolved",
              sent |-> call.sent, diagnostics |-> call.diagnostics,
              first |-> <<>>, second |-> <<>>, defined |-> FALSE, value |-> <<>>,
              failure |-> ""]
    ELSE [origin |-> origin, objectId |-> "", isNode |-> object.isNode,
          pc |-> "resolved", sent |-> <<>>, diagnostics |-> 0,
          first |-> <<>>, second |-> <<>>, defined |-> FALSE, value |-> <<>>,
          failure |-> ""]

\* getProps resumed with the first response as it would be if the accessor
\* round trip were made for every object.
getPropsAfterFirstAnyObject(task, result) ==
    LET call == getPropsByObjectId(task.objectId, FALSE)
    IN  [task EXCEPT !.pc = "await2", !.sent = @ \o call.sent, !.first = result]

\* getProps resumed with the first response.
getPropsAfterFirst(task, result) ==
    IF task.isNode
    THEN LET call == getPropsByObjectId(task.objectId, FALSE)
         IN  [task EXCEPT !.pc = "await2", !.sent = @ \o call.sent, !.first = result]
    ELSE LET r == PropsResponse(result, <<>>)
         IN  [task EXCEPT !.pc = IF r.threw THEN "rejected" ELSE "resolved",
                          !.first = result, !.defined = ~r.threw,
                          !.value = IF r.threw THEN <<>> ELSE r.value,
                          !.failure = IF r.threw THEN "preview" ELSE ""]

\* getProps resumed with the second (accessor) response.
getPropsAfterSecond(task, nodeResult) ==
    LET r == PropsResponse(task.first, nodeResult)
    IN  [task EXCEPT !.pc = IF r.threw THEN "rejected" ELSE "resolved",
                     !.second = nodeResult,
                     !.defined = ~r.threw,
                     !.value = IF r.threw THEN <<>> ELSE r.value,
                     !.failure = IF r.threw THEN "preview" ELSE ""]

\* getProps resumed with a rejected round trip: the await throws.
getPropsAfterReject(task) == [task EXCEPT !.pc = "rejected", !.failure = "transport"]

----------------------------------------------------------------------------
(* Inputs: the objects, console events and responses the session delivers. *)

StrHi == RemoteObject("string", "", TRUE, Str("hi"), "", Undefined, "")
ObjA ==
    WithProperties(RemoteObject("object", "", FALSE, Undefined, "Object", Str("Object"),
                                "obj1"),
                   <<Prop("a", "number", Str("1"))>>)
NodeDiv ==
    RemoteObject("object", "node", FALSE, Undefined, "HTMLDivElement", Str("div#app"),
                 "node1")
PromiseBare ==
    RemoteObject("object", "promise", FALSE, Undefined, "Promise", Str("Promise"), "p1")
Num1 == RemoteObject("number", "", TRUE, Num(1), "", Str("1"), "")

ArgLists == {<<>>, <<ObjA>>, <<NodeDiv>>, <<StrHi, ObjA>>, <<ObjA, PromiseBare>>}

\* The degenerate events, the usual call site with every argument list, a
\* call site the maps do not cover and one whose script has no URL.
ConsoleEvent(args, stackTrace) == [type |-> "log", args |-> args, stackTrace |-> stackTrace]

ConsoleEvents ==
    {ConsoleEvent(<<StrHi, ObjA>>, StackAbsent),
     ConsoleEvent(<<StrHi>>, StackNoCallFrames),
     ConsoleEvent(<<ObjA>>, StackOf(<<>>)),
     ConsoleEvent(<<StrHi>>, StackOf(<<Frame(BundleUrl, 10, 5), Frame(BundleUrl, 9, 4)>>)),
     ConsoleEvent(<<StrHi>>, StackOf(<<Frame(EmptyUrl, 9, 4)>>))}
    \cup {ConsoleEvent(a, StackOf(<<Frame(BundleUrl, 9, 4)>>)) : a \in ArgLists}

DescGetter == Descriptor("size", FALSE, Num1, "false", "true", "undefined", "true")
DescChild == Descriptor("child", TRUE, ObjA, "true", "true", "true", "true")
DescBad == Descriptor("p", TRUE, PromiseBare, "true", "true", "true", "true")
DescId == Descriptor("id", TRUE, StrHi, "true", "true", "undefined", "false")

OwnResults == {<<>>, <<DescGetter, DescChild>>, <<DescBad>>}
AccessorResults == {<<>>, <<DescId>>}

\* The remote objects given to getPreviewOfRemoteObject on its own: every
\* combination of type, subtype, literal value, className, description and
\* inline preview.
Bool(b) == [t |-> "boolean", s |-> b, n |-> 0]
Null == [t |-> "object", s |-> "null", n |-> 0]

ObjectTypes == {"object", "string", "number", "function"}
Subtypes == {"", "array", "promise", "map", "set", "weakmap", "weakset", "node", "null"}
Literals == {Str("hi"), Str(""), Num(1), Num(0), Bool("false"), Null}
ClassNames == {"", "Object", "Foo"}
Descriptions == {Undefined, Str("Foo(1)")}

\* PropertyPreview lists of up to MaxProps elements, named by their index.
PropKinds == {[type |-> "number", value |-> Str("1")], [type |-> "string", value |-> Str("a")]}
PropLists ==
    UNION {{[i \in 1..k |-> Prop(ToString(i - 1), f[i].type, f[i].value)] :
                f \in [1..k -> PropKinds]} : k \in 0..MaxProps}

EntryLists ==
    {<<>>,
     <<Entry(TRUE, ObjPreview("number", Str("1")), TRUE, ObjPreview("string", Str("x")))>>,
     <<Entry(FALSE, ObjPreview("number", Str("1")), TRUE, ObjPreview("number", Str("2"))),
       Entry(FALSE, ObjPreview("number", Str("1")), FALSE, ObjPreview("number", Str("2")))>>}

BareObjects ==
    {RemoteObject(type, subtype, FALSE, Undefined, className, description, "") :
        type \in ObjectTypes, subtype \in Subtypes, className \in ClassNames,
        description \in Descriptions}
    \cup {RemoteObject(type, subtype, TRUE, value, className, description, "") :
        type \in ObjectTypes, subtype \in Subtypes, value \in Literals,
        className \in ClassNames, description \in Descriptions}

RemoteObjects ==
    BareObjects
    \cup {WithProperties(o, props) : o \in BareObjects, props \in PropLists}
    \cup {WithEntries(o, es) : o \in BareObjects, es \in EntryLists}

----------------------------------------------------------------------------
(* Browser.onConsoleLog and the property expansions.                       *)

\* Whether a getProps call awaits a round trip.
Awaits(t) == t.pc \in {"await1", "await2"}

\* onConsoleLog as it would be with emit('log', log) placed before the
\* existOnClient test.
ConsoleResultEmitFirst(maps, event) ==
    LET ctor == LogConstructor(maps, event)
        ex == existOnClient(ctor.log)
        pv == PreviewOf(ctor.log.args)
        none == [event |-> event, log |-> ctor.log, ctorThrew |-> FALSE,
                 existThrew |-> FALSE, exist |-> FALSE, emitted |-> 1,
                 previewThrew |-> FALSE, started |-> <<>>]
    IN  IF ctor.threw
        THEN [none EXCEPT !.ctorThrew = TRUE, !.log = DegenerateLog, !.emitted = 0]
        ELSE IF ex.threw THEN [none EXCEPT !.existThrew = TRUE]
        ELSE IF ex.value
        THEN IF pv.threw
             THEN [none EXCEPT !.exist = TRUE, !.previewThrew = TRUE]
             ELSE [none EXCEPT !.exist = TRUE,
                               !.started = <<getPropsStart("router", pv.previews[1])>>]
        ELSE none

\* onConsoleLog as it would be with the existOnClient test negated.
ConsoleResultNegated(maps, event) ==
    LET ctor == LogConstructor(maps, event)
        ex == existOnClient(ctor.log)
        pv == PreviewOf(ctor.log.args)
        none == [event |-> event, log |-> ctor.log, ctorThrew |-> FALSE,
                 existThrew |-> FALSE, exist |-> FALSE, emitted |-> 0,
                 previewThrew |-> FALSE, started |-> <<>>]
    IN  IF ctor.threw THEN [none EXCEPT !.ctorThrew = TRUE, !.log = DegenerateLog]
        ELSE IF ex.threw THEN [none EXCEPT !.existThrew = TRUE]
        ELSE IF ~ex.value
        THEN IF pv.threw \/ Len(pv.previews) = 0
             THEN [none EXCEPT !.emitted = 1, !.previewThrew = TRUE]
             ELSE [none EXCEPT !.emitted = 1,
                               !.started = <<getPropsStart("router", pv.previews[1])>>]
        ELSE [none EXCEPT !.exist = TRUE]

\* onConsoleLog as it would be with emit('log', log) placed after
\* `await log.getProps(log.preview[0])`: a log whose expansion awaits a round
\* trip is not forwarded in the step in which its event arrives.
ConsoleResultEmitAfterAwait(maps, event) ==
    LET ctor == LogConstructor(maps, event)
        ex == existOnClient(ctor.log)
        pv == PreviewOf(ctor.log.args)
        call == getPropsStart("router", pv.previews[1])
        none == [event |-> event, log |-> ctor.log, ctorThrew |-> FALSE,
                 existThrew |-> FALSE, exist |-> FALSE, emitted |-> 0,
                 previewThrew |-> FALSE, started |-> <<>>]
    IN  IF ctor.threw THEN [none EXCEPT !.ctorThrew = TRUE, !.log = DegenerateLog]
        ELSE IF ex.threw THEN [none EXCEPT !.existThrew = TRUE]
        ELSE IF ex.value
        THEN IF pv.threw
             THEN [none EXCEPT !.exist = TRUE, !.previewThrew = TRUE]
             ELSE [none EXCEPT !.exist = TRUE,
                               !.emitted = IF Awaits(call) THEN 0 ELSE 1,
                               !.started = <<call>>]
        ELSE none

\* The synchronous part of onConsoleLog(event), up to its await.
ConsoleResult(maps, event) ==
    LET ctor == LogConstructor(maps, event)
        ex == existOnClient(ctor.log)
        pv == PreviewOf(ctor.log.args)
        none == [event |-> event, log |-> ctor.log, ctorThrew |-> FALSE,
                 existThrew |-> FALSE, exist |-> FALSE, emitted |-> 0,
                 previewThrew |-> FALSE, started |-> <<>>]
    IN  IF ctor.threw THEN [none EXCEPT !.ctorThrew = TRUE, !.log = DegenerateLog]
        ELSE IF ex.threw THEN [none EXCEPT !.existThrew = TRUE]
        ELSE IF ex.value
        THEN IF pv.threw
             THEN [none EXCEPT !.exist = TRUE, !.emitted = 1, !.previewThrew = TRUE]
             ELSE [none EXCEPT !.exist = TRUE, !.emitted = 1,
                               !.started = <<getPropsStart("router", pv.previews[1])>>]
        ELSE none

\* Whether the handler's promise is rejected by its synchronous part.
ConsoleRejected(r) == r.ctorThrew \/ r.existThrew \/ r.previewThrew

\* onConsoleLog resumed from `await log.getProps(log.preview[0])`: TRUE when
\* the handler's promise ends rejected (there is no catch around the await).
onConsoleLogRejects(task) == task.origin = "router" /\ task.pc = "rejected"

\* What is left of a settled getProps call: the subscriber holds the value
\* it received; the router's handler ends with its local `resp` unused.
Settled(t) ==
    IF t.origin = "router"
    THEN [t EXCEPT !.first = <<>>, !.second = <<>>, !.value = <<>>]
    ELSE t

\* getProps calls were made, in the order of ts: each is pending while it
\* awaits a round trip, and otherwise it has settled at once.
Started(ts) ==
    LET waiting == SelectSeq(ts, Awaits)
        done == SelectSeq(ts, LAMBDA t : ~Awaits(t))
    IN  /\ tasks' = tasks \o waiting
        /\ lastSettled' = IF done = <<>> THEN lastSettled ELSE Settled(done[Len(done)])

\* this.emit('log', log): the subscriber receives the logs in emission order.
Emit(received, log) == Append(received, log)

\* What a subscriber's 'log' listener may do while emit('log', log) runs it
\* (EventEmitter runs the listeners inside emit, before emit returns): 0 is
\* no call, k is a call of log.getProps(log.preview[k]).
ListenerCalls == {0} \cup UNION {1..Len(args) : args \in ArgLists}

\* The getProps calls made by the listener while emit runs it.
ListenerStarted(r, listener) ==
    IF listener = 0 THEN <<>>
    ELSE <<getPropsStart("consumer", PreviewOf(r.log.args).previews[listener])>>

\* The sum of the diagnostics logged by the calls of ts.
RECURSIVE DiagnosticsOf(_)
DiagnosticsOf(ts) ==
    IF ts = <<>> THEN 0 ELSE ts[1].diagnostics + DiagnosticsOf(Tail(ts))

\* The handler up to its await: new Log, the existOnClient test,
\* emit('log', log), during which the listener makes its calls, and then the
\* handler's own log.getProps(log.preview[0]).
onConsoleLog(event, listener) ==
    /\ nConsole < MaxConsole
    /\ LET r == ConsoleResult(sourceMaps, event)
           called == ListenerStarted(r, listener)
       IN  /\ listener # 0 =>
                 /\ r.emitted = 1
                 /\ nExpands < MaxExpands
                 /\ listener <= Len(r.log.args)
                 /\ ~PreviewOf(r.log.args).threw
           /\ lastConsole' = r
           /\ logs' = IF r.emitted = 1 THEN Emit(logs, r.log) ELSE logs
           /\ emittedAt' = IF r.emitted = 1 THEN Append(emittedAt, nConsole + 1)
                           ELSE emittedAt
           /\ Started(called \o r.started)
           /\ unhandled' = IF ConsoleRejected(r) THEN unhandled + 1 ELSE unhandled
           /\ diagnostics' = diagnostics + DiagnosticsOf(called \o r.started)
           /\ nExpands' = nExpands + Len(called)
    /\ nConsole' = nConsole + 1
    /\ UNCHANGED <<reloadVars, requestVars, rendered>>

\* The Log objects the holder of the Browser may pass to emit itself: those
\* built from the console events under a registered map.
ForeignLogs ==
    {LogConstructor({[url |-> BundleUrl, content |-> MapGood]}, event).log :
        event \in {e \in ConsoleEvents :
                      ~LogConstructor({[url |-> BundleUrl, content |-> MapGood]}, e).threw}}

\* The public emit(type, arg), called by the holder of the Browser and not by
\* one of the router's handlers: EventEmitter.emit delivers arg to the
\* subscribers of type.  No console event and no frame is behind it.
emit(type, arg) ==
    /\ IF type = "log"
       THEN /\ Len(logs) - Len(emittedAt) < MaxEmits
            /\ logs' = Emit(logs, arg)
            /\ UNCHANGED updates
       ELSE /\ updates < MaxFrames * MaxMsgs + MaxEmits
            /\ updates' = IF arg THEN updates + 1 ELSE updates
            /\ UNCHANGED logs
    /\ UNCHANGED <<serverHash, nFrames, lastFrame, lastHash, emittedAt, nConsole,
                   lastConsole, tasks, lastSettled, nExpands, diagnostics, unhandled,
                   requestVars, rendered>>

\* The previews a subscriber holds: those of the forwarded logs (log.preview
\* throws when one of the log's previews does) and those of the
\* PropertyRecords it received last.
HeldPreviews ==
    LET ofLog(l) == PreviewOf(logs[l].args)
    IN  UNION {{ofLog(l).previews[k] : k \in 1..Len(logs[l].args)} :
                     l \in {x \in 1..Len(logs) : ~ofLog(x).threw}}
        \cup (IF lastSettled.origin = "consumer" /\ lastSettled.defined
              THEN {lastSettled.value[j].preview : j \in 1..Len(lastSettled.value)}
              ELSE {})

\* A subscriber calls log.getProps(preview) on a preview it holds.
ConsumerGetProps(preview) ==
    /\ nExpands < MaxExpands
    /\ LET t == getPropsStart("consumer", preview)
       IN  /\ Started(<<t>>)
           /\ diagnostics' = diagnostics + t.diagnostics
    /\ nExpands' = nExpands + 1
    /\ UNCHANGED <<logs, emittedAt, nConsole, lastConsole, unhandled, reloadVars, requestVars,
                   rendered>>

\* All of seq but its i-th element.
Remove(seq, i) == SubSeq(seq, 1, i - 1) \o SubSeq(seq, i + 1, Len(seq))

\* getProps call i resumed into t: still pending, or settled, which resumes
\* its caller (the router's handler, or the subscriber).
Settle(i, t) ==
    /\ IF t.pc \in {"await1", "await2"}
       THEN tasks' = [tasks EXCEPT ![i] = t] /\ UNCHANGED lastSettled
       ELSE tasks' = Remove(tasks, i) /\ lastSettled' = Settled(t)
    /\ unhandled' = IF onConsoleLogRejects(t) THEN unhandled + 1 ELSE unhandled

\* CDPclient.send('Runtime.getProperties', ...) resolves.
GetPropertiesResolve(i, result) ==
    /\ i \in 1..Len(tasks)
    /\ \/ /\ tasks[i].pc = "await1"
          /\ result \in OwnResults
          /\ Settle(i, getPropsAfterFirst(tasks[i], result))
       \/ /\ tasks[i].pc = "await2"
          /\ result \in AccessorResults
          /\ Settle(i, getPropsAfterSecond(tasks[i], result))
    /\ UNCHANGED <<logs, emittedAt, nConsole, lastConsole, diagnostics, nExpands, reloadVars,
                   requestVars, rendered>>

\* CDPclient.send('Runtime.getProperties', ...) rejects.
GetPropertiesReject(i) ==
    /\ i \in 1..Len(tasks)
    /\ tasks[i].pc \in {"await1", "await2"}
    /\ Settle(i, getPropsAfterReject(tasks[i]))
    /\ UNCHANGED <<logs, emittedAt, nConsole, lastConsole, diagnostics, nExpands, reloadVars,
                   requestVars, rendered>>

----------------------------------------------------------------------------
(* Browser.onScriptRequest and Browser.loadFile.                           *)

ResourceTypes == {"script", "image", "document"}

\* config.request.ignoreTypes, as configured.
IgnoreTypeConfigs == {{"image"}, {"image", "script"}}

\* What the loader does for one map URL: browser.newPage(), page.goto(url),
\* response.ok(), response.text(), page.close().
Loader(newPage, goto, ok, text, close, content) ==
    [newPage |-> newPage, goto |-> goto, ok |-> ok, text |-> text, close |-> close,
     content |-> content]

NotFoundBody == MapContent("Not Found", 0, 0, Undefined, Undefined, NoUrl)

LoaderOutcomes ==
    {Loader("reject", "reject", FALSE, "reject", "ok", EmptyContent),
     Loader("ok", "reject", FALSE, "reject", "ok", EmptyContent),
     Loader("ok", "null", FALSE, "reject", "ok", EmptyContent),
     Loader("ok", "response", TRUE, "reject", "ok", EmptyContent),
     Loader("ok", "response", FALSE, "ok", "ok", NotFoundBody),
     Loader("ok", "response", FALSE, "ok", "ok", EmptyContent),
     Loader("ok", "response", TRUE, "ok", "reject", MapGood),
     Loader("ok", "response", FALSE, "ok", "reject", NotFoundBody)}
    \cup {Loader("ok", "response", TRUE, "ok", "ok", c) : c \in MapContents}

NoResponse == [defined |-> FALSE, ok |-> FALSE, content |-> EmptyContent]

\* loadFile(url): [rejected, response]; response.defined is FALSE for undefined.
loadFile(outcome) ==
    IF outcome.newPage = "reject" \/ outcome.goto = "reject"
    THEN [rejected |-> TRUE, response |-> NoResponse]
    ELSE IF outcome.goto = "null"
    THEN [rejected |-> FALSE, response |-> NoResponse]
    ELSE IF outcome.text = "reject" \/ outcome.close = "reject"
    THEN [rejected |-> TRUE, response |-> NoResponse]
    ELSE [rejected |-> FALSE,
          response |-> [defined |-> TRUE, ok |-> outcome.ok, content |-> outcome.content]]

\* The registration test as it would be without response.ok.
ShouldRegisterIgnoringOk(response) ==
    response.defined /\ response.content.text # ""

\* response && response.ok && response.content
ShouldRegister(response) ==
    response.defined /\ response.ok /\ response.content.text # ""

\* onScriptRequest as it would be with the 'script' branch placed before the
\* ignoreTypes test.
RequestStartScriptFirst(ignore, request) ==
    LET h == [type |-> request.type, url |-> request.url, pc |-> "", steps |-> <<>>,
              fetched |-> NoUrl, response |-> NoResponse, gotResponse |-> FALSE]
    IN  IF request.type = "script"
        THEN [h EXCEPT !.pc = "loading", !.steps = <<"loadFile">>,
                       !.fetched = MapUrlOf(request.url)]
        ELSE IF request.type \in ignore
        THEN [h EXCEPT !.pc = "aborted", !.steps = <<"abort">>]
        ELSE [h EXCEPT !.pc = "continued", !.steps = <<"continue">>]

\* onScriptRequest(request) up to its first await.
\* pc: "loading" (awaiting loadFile), "creating" (awaiting sourceMaps.create),
\* "aborted", "continued", "rejected"; steps is the order of its calls.
RequestStart(ignore, request) ==
    LET h == [type |-> request.type, url |-> request.url, pc |-> "", steps |-> <<>>,
              fetched |-> NoUrl, response |-> NoResponse, gotResponse |-> FALSE]
    IN  IF request.type \in ignore
        THEN [h EXCEPT !.pc = "aborted", !.steps = <<"abort">>]
        ELSE IF request.type = "script"
        THEN [h EXCEPT !.pc = "loading", !.steps = <<"loadFile">>,
                       !.fetched = MapUrlOf(request.url)]
        ELSE [h EXCEPT !.pc = "continued", !.steps = <<"continue">>]

\* onScriptRequest resumed with loadFile's outcome.
RequestAfterLoad(h, loaded) ==
    IF loaded.rejected THEN [h EXCEPT !.pc = "rejected"]
    ELSE IF ShouldRegister(loaded.response)
    THEN [h EXCEPT !.pc = "creating", !.steps = Append(@, "create"),
                   !.response = loaded.response, !.gotResponse = TRUE]
    ELSE [h EXCEPT !.pc = "continued", !.steps = Append(@, "continue"),
                   !.response = loaded.response, !.gotResponse = TRUE]

\* onScriptRequest resumed after sourceMaps.create resolved.
RequestAfterCreate(h) ==
    [h EXCEPT !.pc = "continued", !.steps = @ \o <<"created", "continue">>]

Requests == {[type |-> t, url |-> BundleUrl] : t \in ResourceTypes}

onScriptRequest(request) ==
    /\ Len(requests) < MaxRequests
    /\ requests' = Append(requests, RequestStart(ignoreTypes, request))
    /\ UNCHANGED <<sourceMaps, ignoreTypes, unhandled, reloadVars, consoleVars, rendered>>

LoadFileSettles(i, outcome) ==
    /\ i \in 1..Len(requests)
    /\ requests[i].pc = "loading"
    /\ LET h == RequestAfterLoad(requests[i], loadFile(outcome))
       IN  /\ requests' = [requests EXCEPT ![i] = h]
           /\ unhandled' = IF h.pc = "rejected" THEN unhandled + 1 ELSE unhandled
    /\ UNCHANGED <<sourceMaps, ignoreTypes, reloadVars, consoleVars, rendered>>

CreateResolves(i) ==
    /\ i \in 1..Len(requests)
    /\ requests[i].pc = "creating"
    /\ sourceMaps' = SourceMapsCreate(sourceMaps, requests[i].url,
                                      requests[i].response.content)
    /\ requests' = [requests EXCEPT ![i] = RequestAfterCreate(@)]
    /\ UNCHANGED <<ignoreTypes, unhandled, reloadVars, consoleVars, rendered>>

CreateRejects(i) ==
    /\ i \in 1..Len(requests)
    /\ requests[i].pc = "creating"
    /\ requests' = [requests EXCEPT ![i].pc = "rejected"]
    /\ unhandled' = unhandled + 1
    /\ UNCHANGED <<sourceMaps, ignoreTypes, reloadVars, consoleVars, rendered>>

----------------------------------------------------------------------------
(* getPreviewOfRemoteObject called on its own.                             *)

NotRendered(object) == [object |-> object, called |-> FALSE, threw |-> FALSE, title |-> ""]

Render ==
    /\ ~rendered.called
    /\ LET p == getPreviewOfRemoteObject(rendered.object)
       IN  rendered' = [object |-> rendered.object, called |-> TRUE,
                        threw |-> p.threw, title |-> p.title]
    /\ UNCHANGED <<reloadVars, consoleVars, requestVars, unhandled>>

----------------------------------------------------------------------------
(* The system.                                                             *)

\* Everything but the registry, as construction leaves it.
InitRouter ==
    /\ serverHash = Undefined
    /\ lastHash = Undefined
    /\ updates = 0
    /\ nFrames = 0
    /\ lastFrame = [payload |-> PayloadEmpty, before |-> Undefined, updatesBefore |-> 0,
                    threw |-> FALSE, steps |-> <<>>]
    /\ logs = <<>>
    /\ emittedAt = <<>>
    /\ nConsole = 0
    /\ lastConsole = ConsoleResult({}, [type |-> "log", args |-> <<>>,
                                        stackTrace |-> StackOf(<<Frame(BundleUrl, 9, 4)>>)])
    /\ tasks = <<>>
    /\ lastSettled = NoCall
    /\ nExpands = 0
    /\ diagnostics = 0
    /\ unhandled = 0
    /\ requests = <<>>

Init ==
    /\ InitRouter
    /\ sourceMaps = {}
    /\ ignoreTypes \in IgnoreTypeConfigs
    /\ rendered = NotRendered(StrHi)

\* The preview builder alone, on every remote object.
InitRender ==
    /\ InitRouter
    /\ sourceMaps = {}
    /\ ignoreTypes = {"image"}
    /\ rendered \in {NotRendered(o) : o \in RemoteObjects}

\* The registries script requests leave behind (each is reachable under
\* SpecRequest): the console handlers, which never read ignoreTypes, are
\* explored from every one of them.
RegisteredMaps ==
    {{}} \cup {{[url |-> BundleUrl, content |-> c]} : c \in MapContents \ {EmptyContent}}

InitConsole ==
    /\ InitRouter
    /\ sourceMaps \in RegisteredMaps
    /\ ignoreTypes = {"image"}
    /\ rendered = NotRendered(StrHi)

FrameReceived == \E message \in Payloads : onWSReloadPage(message)
ConsoleAPICalled ==
    \E event \in ConsoleEvents, listener \in ListenerCalls : onConsoleLog(event, listener)
Expand == \E preview \in HeldPreviews : ConsumerGetProps(preview)
RoundTripResolves ==
    \E i \in 1..(MaxConsole + MaxExpands), result \in OwnResults \cup AccessorResults :
        GetPropertiesResolve(i, result)
RoundTripRejects == \E i \in 1..(MaxConsole + MaxExpands) : GetPropertiesReject(i)
RequestIntercepted == \E request \in Requests : onScriptRequest(request)
MapFetched == \E i \in 1..MaxRequests, outcome \in LoaderOutcomes : LoadFileSettles(i, outcome)
MapRegistered == \E i \in 1..MaxRequests : CreateResolves(i)
MapRejected == \E i \in 1..MaxRequests : CreateRejects(i)

EmitCalled == (\E log \in ForeignLogs : emit("log", log)) \/ emit("update", TRUE)

NextReload == FrameReceived
NextConsole ==
    \/ ConsoleAPICalled
    \/ Expand
    \/ RoundTripResolves
    \/ RoundTripRejects
NextRequest ==
    \/ RequestIntercepted
    \/ MapFetched
    \/ MapRegistered
    \/ MapRejected

\* Every step of the program: the router's handlers, one rendering on its
\* own, and the holder's own calls of the public emit.
Next == NextReload \/ NextConsole \/ NextRequest \/ Render \/ EmitCalled

Spec == Init /\ [][Next]_vars

\* The router's handlers by themselves, with a holder that only subscribes:
\* every 'update' and 'log' a subscriber receives was emitted by a handler.
SpecReload == Init /\ [][NextReload]_vars
SpecRequest == Init /\ [][NextRequest]_vars
SpecConsole == InitConsole /\ [][NextConsole]_vars
SpecRender == InitRender /\ [][Render]_vars

\* The request handlers with every pending await settling in the end: the
\* loader and the registry answer each call, with a value or with a failure.
SpecRequestLive ==
    /\ SpecRequest
    /\ WF_vars(MapFetched)
    /\ WF_vars(MapRegistered \/ MapRejected)

\* Console events interleaved with intercepted script requests: the events
\* and loader outcomes that decide whether something is pending.
InterleaveEvents ==
    {ConsoleEvent(<<ObjA>>, StackOf(<<Frame(BundleUrl, 9, 4)>>)),
     ConsoleEvent(<<StrHi, ObjA>>, StackOf(<<Frame(BundleUrl, 9, 4)>>))}
InterleaveOutcomes ==
    {Loader("ok", "reject", FALSE, "reject", "ok", EmptyContent),
     Loader("ok", "response", TRUE, "ok", "ok", MapGood)}
InterleaveResults == {<<>>, <<DescGetter, DescChild>>}

InitInterleave ==
    /\ InitRouter
    /\ sourceMaps = {}
    /\ ignoreTypes = {"image"}
    /\ rendered = NotRendered(StrHi)

ConsoleArrives ==
    \E event \in InterleaveEvents, listener \in ListenerCalls : onConsoleLog(event, listener)
ScriptIntercepted == onScriptRequest([type |-> "script", url |-> BundleUrl])
MapFetchSettles ==
    \E i \in 1..MaxRequests, outcome \in InterleaveOutcomes : LoadFileSettles(i, outcome)

RoundTripAnswers ==
    \E i \in 1..(MaxConsole + MaxExpands), result \in InterleaveResults :
        GetPropertiesResolve(i, result)

NextInterleave ==
    \/ ConsoleArrives
    \/ Expand
    \/ RoundTripAnswers
    \/ RoundTripRejects
    \/ ScriptIntercepted
    \/ MapFetchSettles
    \/ MapRegistered
    \/ MapRejected

SpecInterleave == InitInterleave /\ [][NextInterleave]_vars

----------------------------------------------------------------------------
(* Properties.                                                             *)

\* What the reload protocol prescribes for a hash message with value d when
\* the recorded baseline is b (Undefined: none recorded yet).
ExpectedEmitted(b, d) == IF b = Undefined \/ b = Str(d) THEN 0 ELSE 1

\* C1: every hash message of a frame, arbitrary string values included, sets
\* the baseline silently when none is recorded, and otherwise emits exactly
\* one 'update' and replaces the baseline iff its value differs from it.
C1_HashSignals ==
    \A i \in 1..Len(lastFrame.steps) :
        LET s == lastFrame.steps[i]
        IN  s.msg.type = "hash" =>
                /\ s.emitted = ExpectedEmitted(s.before, s.msg.data)
                /\ s.after = Str(s.msg.data)

HasCallFrames(event) ==
    event.stackTrace.kind = "frames" /\ event.stackTrace.callFrames # <<>>

\* C2: a console event without call-stack frames is never forwarded: handling
\* it emits no 'log', and no Log forwarded so far is a degenerate one.
C2_DegenerateNeverForwarded ==
    /\ (nConsole > 0 /\ ~HasCallFrames(lastConsole.event)) => lastConsole.emitted = 0
    /\ \A i \in 1..Len(logs) : logs[i].argsSet /\ logs[i].generatedPosition.source # ""

\* C2 witness: an event without frames, with arguments and with a map that
\* would resolve the usual position, was handled and nothing was forwarded.
C2_Witness ==
    /\ nConsole > 0
    /\ lastConsole.event.stackTrace = StackAbsent
    /\ lastConsole.event.args = <<StrHi, ObjA>>
    /\ sourceMaps = {[url |-> BundleUrl, content |-> MapGood]}
    /\ logs = <<>>

\* C3: for an event without call frames existOnClient evaluates to false
\* without raising, and the handler completes normally.
C3_DegenerateExistFalse ==
    (nConsole > 0 /\ ~HasCallFrames(lastConsole.event)) =>
        /\ ~lastConsole.existThrew
        /\ ~lastConsole.exist
        /\ ~ConsoleRejected(lastConsole)

\* C4: for every constructed (non-degenerate) Log, existOnClient is true iff
\* args is non-empty, originalPosition.source is non-empty and
\* originalPosition.line is a number other than 0.
C4_ExistOnClientIff ==
    (nConsole > 0 /\ ~lastConsole.ctorThrew /\ lastConsole.log.argsSet) =>
        /\ ~lastConsole.existThrew
        /\ lastConsole.exist <=>
              /\ Len(lastConsole.log.args) >= 1
              /\ lastConsole.log.originalPosition.source \notin {""}
              /\ lastConsole.log.originalPosition.line.t = "number"
              /\ lastConsole.log.originalPosition.line.n # 0

\* C4 witness: a Log with arguments and a resolved source whose resolved
\* line is 0 was built, and existOnClient was false.
C4_Witness ==
    /\ nConsole > 0
    /\ lastConsole.log.argsSet
    /\ lastConsole.log.args # <<>>
    /\ lastConsole.log.originalPosition.source = "/app.ts"
    /\ lastConsole.log.originalPosition.line = Num(0)
    /\ ~lastConsole.exist

\* C5: each console event appends its own Log to the forwarded logs exactly
\* once when the Log was built and its existOnClient is true, and appends
\* nothing otherwise; no other step forwards a log.
C5_ForwardedExactlyWhenExists ==
    [][/\ nConsole' = nConsole => logs' = logs
       /\ nConsole' = nConsole + 1 =>
            LET c == LogConstructor(sourceMaps, lastConsole'.event)
                e == existOnClient(c.log)
            IN  IF ~c.threw /\ ~e.threw /\ e.value
                THEN logs' = Append(logs, c.log)
                ELSE logs' = logs]_vars

\* C5 witness: two console events were handled, the first forwarded and the
\* second, whose Log has no resolved position, not forwarded.
C5_Witness ==
    /\ nConsole = 2
    /\ Len(logs) = 1
    /\ lastConsole.log.argsSet
    /\ ~lastConsole.exist
    /\ lastConsole.emitted = 0
    /\ lastConsole.log # logs[1]

\* A frame the decoder cannot use: wrong tag, empty body, or a body or a
\* message string that is not JSON.
Malformed(payload) ==
    \/ payload.tag # "a"
    \/ payload.body.json \in {"empty", "invalid"}
    \/ \E i \in 1..Len(payload.body.items) : payload.body.items[i].json = "invalid"

\* C6: a malformed frame emits no 'update', leaves the baseline unchanged
\* and raises no error out of the handler.
C6_MalformedFrameIgnored ==
    (nFrames > 0 /\ Malformed(lastFrame.payload)) =>
        /\ ~lastFrame.threw
        /\ serverHash = lastFrame.before
        /\ updates = lastFrame.updatesBefore

\* C7: every GetProperties round trip was issued by a getProps call of a
\* subscriber; handling a console event issues none.
C7_NoAutomaticExpansion ==
    /\ \A i \in 1..Len(tasks) : tasks[i].sent # <<>> => tasks[i].origin = "consumer"
    /\ lastSettled.sent # <<>> => lastSettled.origin = "consumer"
    /\ \A i \in 1..Len(lastConsole.started) : lastConsole.started[i].sent = <<>>

\* C8: a rejected GetProperties round trip never makes a console handler end
\* in an unhandled rejection.
C8_TransportFailureConfined ==
    [][(/\ Len(tasks') < Len(tasks)
        /\ lastSettled'.failure = "transport")
       => unhandled' = unhandled]_vars

\* C9: expanding a Preview without identifier resolves to undefined, sends
\* nothing and reports one diagnostic.
C9_MissingIdentifier ==
    /\ \A i \in 1..Len(tasks) : tasks[i].objectId # ""
    /\ (lastSettled.pc # "none" /\ lastSettled.objectId = "") =>
            /\ lastSettled.pc = "resolved"
            /\ ~lastSettled.defined
            /\ lastSettled.sent = <<>>
            /\ lastSettled.diagnostics = 1

\* C10: a non-ignorable script request first fetches '<url>.map'; registers
\* the content under the script URL iff the fetch returned an ok response
\* with non-empty content; continues only after the registration completed,
\* and continues as well when the fetch returned and nothing was registered.
C10_ScriptRequestOrder ==
    /\ \A i \in 1..Len(requests) :
         LET h == requests[i]
             wanted == /\ h.gotResponse
                       /\ h.response.defined
                       /\ h.response.ok
                       /\ h.response.content.text # ""
         IN  (h.type = "script" /\ h.type \notin ignoreTypes) =>
               /\ h.fetched = [h.url EXCEPT !.path = h.url.path \o ".map"]
               /\ h.steps \in {<<"loadFile">>, <<"loadFile", "continue">>,
                               <<"loadFile", "create">>,
                               <<"loadFile", "create", "created", "continue">>}
               /\ ("create" \in {h.steps[k] : k \in 1..Len(h.steps)}) <=> wanted
               /\ (h.gotResponse /\ ~wanted) => h.steps = <<"loadFile", "continue">>
               /\ h.pc = "continued" <=> h.steps[Len(h.steps)] = "continue"
               /\ Len(h.steps) = 4 => \E m \in sourceMaps : m.url = h.url
    /\ \A m \in sourceMaps :
         \E i \in 1..Len(requests) :
            /\ requests[i].url = m.url
            /\ requests[i].response.content = m.content
            /\ requests[i].response.ok
            /\ Len(requests[i].steps) = 4

\* C10 witness: one script request was continued after its map was
\* registered, another after a 404 response with a body registered nothing.
C10_Witness ==
    /\ Len(requests) = 2
    /\ requests[1].steps = <<"loadFile", "create", "created", "continue">>
    /\ requests[1].response.content = MapGood
    /\ requests[2].type = "script"
    /\ requests[2].steps = <<"loadFile", "continue">>
    /\ requests[2].response.content = NotFoundBody
    /\ sourceMaps = {[url |-> BundleUrl, content |-> MapGood]}

\* The console call log("hi", {a: 1}) at generated (9, 4) in bundle.js.
EndToEndEvent == ConsoleEvent(<<StrHi, ObjA>>, StackOf(<<Frame(BundleUrl, 9, 4)>>))

\* C11: log("hi", {a: 1}) at generated (9, 4) in bundle.js, with a map that
\* resolves the 1-based (10, 5) to (3, 1, "app.ts"), is forwarded with
\* generatedPosition 9 / 4, originalPosition {3, 1, "/app.ts"} and preview
\* titles <<"'hi'", "{ a: 1 }">>; every constructed Log queried the resolver
\* at (line + 1, column + 1).
C11_EndToEnd ==
    /\ (/\ nConsole > 0
        /\ lastConsole.event = EndToEndEvent
        /\ sourceMaps = {[url |-> BundleUrl, content |-> MapRelative]}) =>
            /\ lastConsole.emitted = 1
            /\ ~ConsoleRejected(lastConsole)
            /\ lastConsole.log.generatedPosition.line = Num(9)
            /\ lastConsole.log.generatedPosition.column = Num(4)
            /\ lastConsole.log.originalPosition =
                   [line |-> Num(3), column |-> Num(1), source |-> "/app.ts"]
            /\ LET previews == PreviewOf(lastConsole.log.args).previews
               IN  [i \in 1..Len(previews) |-> previews[i].title] = <<"'hi'", "{ a: 1 }">>
            /\ previewTitle(lastConsole.log.args) = [threw |-> FALSE, title |-> "'hi', { a: 1 }"]
    /\ (nConsole > 0 /\ lastConsole.log.argsSet) =>
            LET callFrame == lastConsole.event.stackTrace.callFrames[1]
            IN  lastConsole.log.query = [line |-> callFrame.lineNumber + 1,
                                         column |-> callFrame.columnNumber + 1]

\* A round trip or a map fetch / registration is pending.
Pending ==
    \/ \E i \in 1..Len(tasks) : tasks[i].pc \in {"await1", "await2"}
    \/ \E i \in 1..Len(requests) : requests[i].pc \in {"loading", "creating"}

\* Whether the Log of a console event is to be forwarded, given the registry
\* at its arrival (Browser.ts:144-153).
Forwardable(maps, event) ==
    LET c == LogConstructor(maps, event)
    IN  IF c.threw THEN FALSE
        ELSE IF existOnClient(c.log).threw THEN FALSE
        ELSE existOnClient(c.log).value

\* Whether arrival numbers are in strictly increasing order.
Increasing(seq) == \A i, j \in 1..Len(seq) : i < j => seq[i] < seq[j]

\* C12: a console event is handled through its forwarding step in the step
\* in which it arrives, whatever round trips (the router's or a subscriber's)
\* and map fetches are pending, and leaves what was pending as it was: its
\* Log, if it exists on the client, goes to the end of the forwarded logs;
\* completions of round trips and map fetches, and later expansions, never
\* add or reorder logs; so the forwarded logs are always in the arrival order
\* of their events.
C12_ArrivalOrder ==
    [][/\ nConsole' = nConsole + 1 =>
            /\ IF Forwardable(sourceMaps, lastConsole'.event)
               THEN /\ logs' = Append(logs, LogConstructor(sourceMaps, lastConsole'.event).log)
                    /\ emittedAt' = Append(emittedAt, nConsole')
               ELSE logs' = logs /\ emittedAt' = emittedAt
            /\ SubSeq(tasks', 1, Len(tasks)) = tasks
            /\ requests' = requests
       /\ nConsole' = nConsole => logs' = logs /\ emittedAt' = emittedAt
       /\ Len(emittedAt') = Len(logs')
       /\ Increasing(emittedAt')]_vars

\* C12 witness: two events were forwarded in arrival order; the listener of
\* the first one expanded its preview inside emit, before the router's own
\* expansion, and the second event arrived while both of these round trips
\* and a script's map fetch were still pending.
C12_Witness ==
    /\ nConsole = 2
    /\ Len(logs) = 2
    /\ emittedAt = <<1, 2>>
    /\ logs[1].args = <<ObjA>>
    /\ logs[2].args = <<StrHi, ObjA>>
    /\ lastConsole.log = logs[2]
    /\ Len(tasks) = 2
    /\ tasks[1].origin = "consumer" /\ tasks[1].pc = "await1"
    /\ tasks[2].origin = "router" /\ tasks[2].pc = "await1"
    /\ \E i \in 1..Len(requests) : requests[i].pc = "loading"
    /\ Pending

\* The plain textual form of a literal.
PlainText(v) ==
    CASE v.t = "number" -> ToString(v.n)
      [] v.t = "string" -> v.s
      [] v.t = "boolean" -> v.s
      [] OTHER -> "null"

\* C13: a reference that carries a literal value renders as the value in
\* single quotes when it is a string and as its plain text otherwise,
\* whatever its type, subtype, className, description and inline preview.
C13_LiteralRule ==
    (rendered.called /\ rendered.object.hasValue) =>
        /\ ~rendered.threw
        /\ rendered.title =
              IF rendered.object.value.t = "string"
              THEN "'" \o rendered.object.value.s \o "'"
              ELSE PlainText(rendered.object.value)

\* C13 witness: an array-subtype object of class Foo with a description and
\* the string literal "hi" was rendered as 'hi'.
C13_Witness ==
    /\ rendered.called
    /\ rendered.object.hasValue
    /\ rendered.object.value = Str("hi")
    /\ rendered.object.type = "object"
    /\ rendered.object.subtype = "array"
    /\ rendered.object.className = "Foo"
    /\ rendered.object.description = Str("Foo(1)")
    /\ rendered.title = "'hi'"

\* The quoting rule applied to inline elements, joined with ", ".
RECURSIVE QuotedElements(_)
QuotedElements(props) ==
    IF props = <<>> THEN ""
    ELSE LET h == IF Head(props).type = "string"
                  THEN "'" \o Head(props).value.s \o "'"
                  ELSE Head(props).value.s
         IN  IF Len(props) = 1 THEN h ELSE h \o ", " \o QuotedElements(Tail(props))

IsArrayRef(object) ==
    ~object.hasValue /\ object.type = "object" /\ object.subtype = "array"

\* C14: an array-subtype reference without literal value renders as "[ ",
\* its inline elements by the quoting rule joined with ", ", and " ]", with
\* no class prefix: "[ 1, 'a' ]" for the elements 1 and "a".
C14_ArrayRender ==
    (rendered.called /\ IsArrayRef(rendered.object)) =>
        /\ ~rendered.threw
        /\ rendered.title = "[ " \o QuotedElements(rendered.object.properties) \o " ]"

\* An object reference without literal value and without any inline preview.
NoInlinePreview(object) ==
    /\ ~object.hasValue
    /\ object.type = "object"
    /\ object.subtype \in {"", "array", "promise", "map", "set", "weakmap", "weakset"}
    /\ ~object.hasPreview

\* A prefix followed by empty braces or brackets, with or without inner
\* spaces.
EmptyForms(open, close) == {open \o close, open \o " " \o close, open \o "  " \o close}

\* C15: an object reference without literal value and without inline preview
\* renders, without raising, as its prefix and empty braces or brackets.
C15_EmptyPreview ==
    (rendered.called /\ NoInlinePreview(rendered.object)) =>
        /\ ~rendered.threw
        /\ LET o == rendered.object
               class == IF o.className \in {"", "Object", "Function"}
                        THEN "" ELSE o.className \o ": "
               desc == IF o.description = Undefined THEN "undefined" ELSE o.description.s
           IN  CASE o.subtype = "" -> rendered.title \in EmptyForms(class \o "{", "}")
                 [] o.subtype = "array" -> rendered.title \in EmptyForms("[", "]")
                 [] o.subtype = "promise" -> TRUE
                 [] OTHER -> rendered.title \in EmptyForms(desc \o ": {", "}")

\* The GetProperties commands of the expansion protocol.
OwnRequest(id) ==
    [objectId |-> id, ownProperties |-> TRUE, accessorPropertiesOnly |-> FALSE,
     generatePreview |-> TRUE]
AccessorRequest(id) ==
    [objectId |-> id, ownProperties |-> FALSE, accessorPropertiesOnly |-> TRUE,
     generatePreview |-> TRUE]

\* What one getProps call on a Preview with identifier has sent so far.
FollowsProtocol(t) ==
    t.objectId # "" =>
        /\ Len(t.sent) \in {1, 2}
        /\ t.sent[1] = OwnRequest(t.objectId)
        /\ Len(t.sent) = 2 => t.isNode /\ t.sent[2] = AccessorRequest(t.objectId)
        /\ t.pc = "await1" => Len(t.sent) = 1
        /\ t.pc = "await2" => Len(t.sent) = 2
        /\ (t.pc = "resolved" \/ t.failure = "preview") =>
                Len(t.sent) = IF t.isNode THEN 2 ELSE 1

\* C16: a getProps call on a Preview with identifier sends one GetProperties
\* for own properties with preview generation; once that has responded, and
\* only then, it sends one more, for accessor properties of the same
\* identifier, iff the Preview is a node; it never sends a third.
C16_ExpansionProtocol ==
    /\ \A i \in 1..Len(tasks) : tasks[i].objectId # "" /\ FollowsProtocol(tasks[i])
    /\ lastSettled.pc # "none" => FollowsProtocol(lastSettled)

\* C16 witness: a subscriber's expansion of a node Preview resolved after two
\* round trips.
C16_Witness ==
    /\ lastSettled.origin = "consumer"
    /\ lastSettled.pc = "resolved"
    /\ lastSettled.isNode
    /\ lastSettled.sent = <<OwnRequest("node1"), AccessorRequest("node1")>>

\* The PropertyRecord of one descriptor.
RecordOf(d) ==
    [preview |-> getPreview(d.value), name |-> d.name,
     descriptor |-> [enumerable |-> d.enumerable, configurable |-> d.configurable,
                     writable |-> d.writable, isOwn |-> d.isOwn]]

\* recs holds one record for exactly the descriptors of ds whose value is
\* present, in the order of ds.
KeepsPresentInOrder(recs, ds) ==
    \E f \in [1..Len(recs) -> 1..Len(ds)] :
        /\ \A j, k \in 1..Len(recs) : j < k => f[j] < f[k]
        /\ {f[k] : k \in 1..Len(recs)} = {i \in 1..Len(ds) : ds[i].hasValue}
        /\ \A k \in 1..Len(recs) : recs[k] = RecordOf(ds[f[k]])

\* C17: the sequence an expansion returns holds one PropertyRecord for
\* exactly the descriptors of the first response followed by the second
\* whose value is present, in that order, each with the descriptor's name,
\* the Preview of its value and its four flags unchanged.
C17_ReturnedRecords ==
    (lastSettled.origin = "consumer" /\ lastSettled.pc = "resolved" /\ lastSettled.defined) =>
        KeepsPresentInOrder(lastSettled.value, lastSettled.first \o lastSettled.second)

\* C17 witness: a node expansion received a getter-only descriptor and a
\* valued one, then a valued accessor; it returned the two valued ones.
C17_Witness ==
    /\ lastSettled.origin = "consumer"
    /\ lastSettled.pc = "resolved"
    /\ lastSettled.first = <<DescGetter, DescChild>>
    /\ lastSettled.second = <<DescId>>
    /\ Len(lastSettled.value) = 2
    /\ lastSettled.value[1].name = "child"
    /\ lastSettled.value[2].name = "id"
    /\ lastSettled.value[2].descriptor.isOwn = "false"

\* How many of a handler's calls are name.
RECURSIVE CountStep(_, _)
CountStep(steps, name) ==
    IF steps = <<>> THEN 0
    ELSE (IF Head(steps) = name THEN 1 ELSE 0) + CountStep(Tail(steps), name)

\* C18: every intercepted request is decided at most once: aborted, before
\* any map fetch or registration, iff its type is ignorable (type 'script'
\* included), and otherwise continued at most once and never aborted.
C18_OneDecision ==
    \A i \in 1..Len(requests) :
        LET h == requests[i]
        IN  /\ CountStep(h.steps, "abort") + CountStep(h.steps, "continue") <= 1
            /\ h.type \in ignoreTypes =>
                    /\ h.steps = <<"abort">>
                    /\ h.pc = "aborted"
                    /\ h.fetched = NoUrl
                    /\ ~h.gotResponse
            /\ h.type \notin ignoreTypes =>
                    /\ CountStep(h.steps, "abort") = 0
                    /\ h.pc # "aborted"
                    /\ h.pc = "continued" <=> CountStep(h.steps, "continue") = 1

\* C18 witness: with 'script' configured as ignorable a script request was
\* aborted without a map fetch and a document request was continued.
C18_Witness ==
    /\ ignoreTypes = {"image", "script"}
    /\ Len(requests) = 2
    /\ requests[1].type = "script"
    /\ requests[1].steps = <<"abort">>
    /\ requests[2].type = "document"
    /\ requests[2].steps = <<"continue">>
    /\ sourceMaps = {}

\* Request i was intercepted and its type is not ignorable.
NotIgnorable(i) ==
    IF i <= Len(requests) THEN requests[i].type \notin ignoreTypes ELSE FALSE

\* Request i was continued.
Continued(i) ==
    IF i <= Len(requests) THEN requests[i].pc = "continued" ELSE FALSE

\* C19: every intercepted request of a type that is not ignorable is
\* continued in the end, also when its map fetch or its map registration
\* fails.
C19_EventuallyContinued ==
    \A i \in 1..MaxRequests : [](NotIgnorable(i) => <>Continued(i))

\* The frame handled last carried a processed hash message.
HasHashStep(steps) == \E i \in 1..Len(steps) : steps[i].msg.type = "hash"

\* C20: the recorded baseline is unset while no hash message has been
\* processed and otherwise is the value of the hash message processed last,
\* also for several hash messages in one frame; a frame without hash
\* messages leaves it as it was.
C20_BaselineIsLastHash ==
    /\ serverHash = lastHash
    /\ (nFrames > 0 /\ ~HasHashStep(lastFrame.steps)) => serverHash = lastFrame.before

\* C20 witness: a frame with two different hash messages was decoded after a
\* baseline had been recorded; the baseline is the second one's value.
C20_Witness ==
    /\ nFrames >= 2
    /\ ~lastFrame.threw
    /\ lastFrame.before = Str("h2")
    /\ Len(lastFrame.steps) = 2
    /\ lastFrame.steps[1].msg = MsgHash("")
    /\ lastFrame.steps[2].msg = MsgHash("h1")
    /\ serverHash = Str("h1")
====
